---- MODULE Spec2Model ----
(***************************************************************************)
(* EnCore: a small Entity-Component-System.                                *)
(*                                                                         *)
(* The repository holds two definitions of Manager's entity operations:    *)
(*   - EnCore.h   : header-only, std::unordered_map<unsigned int,          *)
(*                  std::shared_ptr<Entity>> (impl = "h");                 *)
(*   - EnCore.cpp : out-of-line definitions over a std::vector<Entity*>    *)
(*                  of raw pointers (impl = "cpp").                        *)
(* A program links exactly one of them; impl is fixed at construction.     *)
(***************************************************************************)
EXTENDS Integers, Sequences, FiniteSets, TLC

\* ---------------------------------------------------------------- bounds
MaxEntities == 2
MaxComps == 2
UIntBits == 3
MaxX == 16

\* ------------------------------------------------------------- constants
UIntMod == 2 ^ UIntBits
CompTypes == {"PosComp", "VelComp"}
CompValues == {10}
Uids == 0 .. MaxEntities
NullEntity == 0
NullComp == 0
EmptyMap == << >>
JunkUid == UIntMod - 1
Impls == {"h", "cpp"}
\* README: PosComp(10, 10) has int fields; VelComp(3.14, 3.14) has double
\* fields, kept in hundredths
PosX == 10
VelX == 314
VelScale == 100
ValuesOf(T) == IF T = "PosComp" THEN {PosX} ELSE {VelX}
\* the values a caller assigns to the field of a component it has a view of
WriteValuesOf(T) == IF T = "PosComp" THEN {PosX + 1} ELSE {VelX + VelScale}
\* every value of the unsigned counter, and one create more than it has values
AllUids == 0 .. (UIntMod - 1)
MaxCreates == UIntMod + 1

VARIABLES
  impl,            \* which definition of Manager is linked
  entities,        \* EnCore.h: Manager::entities, uid -> shared_ptr<Entity>
  entities_vec,    \* EnCore.cpp: Manager::entities, vector of Entity*
  next_entity_id,  \* Manager::next_entity_id
  ent_objs,        \* heap of Entity objects: address -> [uid, components]
  ent_released,    \* addresses of Entity objects that have been destructed/freed
  comp_objs,       \* heap of Component objects: address -> [type, val]
  comp_released,   \* addresses of Component objects that have been destructed
  handles,         \* Entity handles the caller holds (shared_ptr / Entity*)
  chandles,        \* Component handles the caller holds (shared_ptr<Comp>)
  mgr_alive,       \* FALSE once ~Manager has run
  crashed,         \* the process was aborted (double delete detected)
  issued,          \* history: uids returned by create_entity, in order
  destroy_called,  \* history: issued uids passed to destroy_entity since
  last             \* history: the last operation and its arguments

vars == << impl, entities, entities_vec, next_entity_id, ent_objs, ent_released,
           comp_objs, comp_released, handles, chandles, mgr_alive, crashed,
           issued, destroy_called, last >>

\* ---------------------------------------------------------------- helpers
Range(f) == { f[x] : x \in DOMAIN f }

MapPut(m, k, v) == [ x \in (DOMAIN m) \cup {k} |-> IF x = k THEN v ELSE m[x] ]

MapErase(m, k) ==
  IF (DOMAIN m) \ {k} = {} THEN EmptyMap ELSE [ x \in (DOMAIN m) \ {k} |-> m[x] ]

\* std::unordered_map::operator[]: the map after m[k] is evaluated, which
\* inserts the default value d under a key that is absent
MapIndex(m, k, d) == IF k \in DOMAIN m THEN m ELSE MapPut(m, k, d)

Orders(S) == { s \in [ 1 .. Cardinality(S) -> S ] : \A i, j \in DOMAIN s : i # j => s[i] # s[j] }

\* the record of the last operation: its name, the uid or Entity handle it was
\* given (a), the Component handle it was given (c), the type it was given (t)
\* and the Component it took out of the Entity's slot (old)
Op(o, a, c, t, old) == [ op |-> o, a |-> a, c |-> c, t |-> t, old |-> old ]

NoOp == Op("none", 0, 0, "", 0)

\* typeid(Comp).name(): the key of Entity::components, the (mangled) name of
\* the type.  One image gives one name pointer per type.
TypeName(T) == CASE T = "PosComp" -> "7PosComp"
                 [] T = "VelComp" -> "7VelComp"

\* std::shared_ptr use counts: owners of an Entity are the Manager's map slots
\* and the caller's handles; owners of a Component are the slots of Entities
\* that are not destructed and the caller's handles.
EntUseCount(e, ents, hs) ==
  Cardinality({ k \in DOMAIN ents : ents[k] = e }) + (IF e \in hs THEN 1 ELSE 0)

CompUseCount(c, objs, erel, chs) ==
  Cardinality({ p \in ((1 .. Len(objs)) \ erel) \X CompTypes :
                  /\ TypeName(p[2]) \in DOMAIN objs[p[1]].components
                  /\ objs[p[1]].components[TypeName(p[2])] = c })
  + (IF c \in chs THEN 1 ELSE 0)

\* the Entity objects among cands whose use count is zero: ~Entity runs
EntitiesDropped(cands, ents, hs) ==
  { e \in cands \ {NullEntity} : EntUseCount(e, ents, hs) = 0 }

\* the Component objects among cands whose use count is zero
CompsDropped(cands, objs, erel, chs) ==
  { c \in cands \ {NullComp} : CompUseCount(c, objs, erel, chs) = 0 }

\* ------------------------------------------------------------------ Entity
\* Entity::Entity(uid)
Entity(uid) == [ uid |-> uid, components |-> EmptyMap ]

\* Entity::get_uid
get_uid(e) == ent_objs[e].uid

\* Entity::contains<Comp>
contains(e, T) == TypeName(T) \in DOMAIN ent_objs[e].components

\* Entity::get_component<Comp>
get_component(e, T) ==
  IF TypeName(T) \in DOMAIN ent_objs[e].components
    THEN ent_objs[e].components[TypeName(T)]
    ELSE NullComp

\* mutant: the component is stored under typeid(component).name(), the name of
\* the shared_ptr's type, which no lookup uses
AddComponentPtrKey(e, T, c) == MapPut(ent_objs[e].components, "shared_ptr", c)

\* mutant: components.insert({name, component}), which keeps an existing entry
AddComponentInsertOnly(e, T, c) ==
  IF TypeName(T) \in DOMAIN ent_objs[e].components
    THEN ent_objs[e].components
    ELSE MapPut(ent_objs[e].components, TypeName(T), c)

\* the components map of e after add_component<T>(c)
AddComponentMap(e, T, c) == MapPut(ent_objs[e].components, TypeName(T), c)

\* mutant: it->second.reset() without components.erase(it)
RemoveResetOnly(e, T) ==
  IF TypeName(T) \in DOMAIN ent_objs[e].components
    THEN MapPut(ent_objs[e].components, TypeName(T), NullComp)
    ELSE ent_objs[e].components

\* mutant: components.clear() instead of components.erase(it)
RemoveClearAll(e, T) ==
  IF TypeName(T) \in DOMAIN ent_objs[e].components
    THEN EmptyMap
    ELSE ent_objs[e].components

\* the components map of e after remove_component<T>()
RemoveComponentMap(e, T) ==
  IF TypeName(T) \in DOMAIN ent_objs[e].components
    THEN MapErase(ent_objs[e].components, TypeName(T))
    ELSE ent_objs[e].components

\* ----------------------------------------------------- Manager (EnCore.h)
\* Manager::get_entity(uid)
get_entity(uid) == IF uid \in DOMAIN entities THEN entities[uid] ELSE NullEntity

\* mutant: return entities[uid] without the find
GetEntityNoFind(uid) == MapIndex(entities, uid, NullEntity)

\* Manager::entities after get_entity(uid): entities[uid] is evaluated only
\* when find has found uid
GetEntityEntities(uid) ==
  IF uid \in DOMAIN entities THEN MapIndex(entities, uid, NullEntity) ELSE entities

\* mutant: the contains<Comp>() test is dropped
QueryNoFilter(T, ord) == [ i \in 1 .. Len(ord) |-> entities[ord[i]] ]

\* Manager::get_entities_with_components<Comp>, iterating the map in order ord
get_entities_with_components(T, ord) ==
  LET hit == SelectSeq(ord, LAMBDA k : contains(entities[k], T))
  IN  [ i \in 1 .. Len(hit) |-> entities[hit[i]] ]

\* mutant: the increment is forgotten
NextIdNoIncrement(n) == n

\* the counter after next_entity_id++ (unsigned int)
NextId(n) == (n + 1) % UIntMod

\* the value create_entity returns: next_entity_id - 1, after the increment
ReturnedId(n) == (n + UIntMod - 1) % UIntMod

\* mutant: entities[uid].reset() on a copy, and no entities.erase(it)
DestroyEraseNothing(uid) == entities

\* Manager::entities after destroy_entity(uid)
DestroyErase(uid) ==
  IF uid \in DOMAIN entities THEN MapErase(entities, uid) ELSE entities

\* mutant: the new Entity is numbered by the size of the map
CreatedEntitySizeUid == Entity(Cardinality(DOMAIN entities))

\* std::make_shared<Entity>(next_entity_id) in create_entity
CreatedEntity == Entity(next_entity_id)

\* mutant: the map is rebuilt with the new entry only
CreateInsertAlone(obj) == [ k \in {next_entity_id} |-> obj ]

\* Manager::entities after entities[next_entity_id] = obj in create_entity
CreateInsert(obj) == MapPut(MapIndex(entities, next_entity_id, NullEntity), next_entity_id, obj)

\* the Component objects released when the Entity objects in dead are destructed
\* (~Entity) and the caller holds chs
Cascade(dead, objs, erel, chs) ==
  CompsDropped(UNION { Range(objs[e].components) : e \in dead }, objs, erel, chs)

\* Manager::create_entity (EnCore.h), called while fewer than cap entities have
\* been created
create_entity_upto(cap) ==
  /\ impl = "h" /\ mgr_alive /\ Len(issued) < cap
  /\ LET uid  == next_entity_id
         obj  == Len(ent_objs) + 1
         old  == get_entity(uid)
         ents == CreateInsert(obj)
         objs == Append(ent_objs, CreatedEntity)
         dead == EntitiesDropped({old}, ents, handles)
         ret  == ReturnedId(NextId(next_entity_id))
     IN  /\ entities' = ents
         /\ ent_objs' = objs
         /\ next_entity_id' = NextId(next_entity_id)
         /\ ent_released' = ent_released \cup dead
         /\ comp_released' = comp_released
                \cup Cascade(dead, objs, ent_released \cup dead, chandles)
         /\ issued' = Append(issued, ret)
         /\ last' = Op("create_entity", ret, 0, "", 0)
  /\ UNCHANGED << impl, entities_vec, comp_objs, handles, chandles, mgr_alive,
                  crashed, destroy_called >>

\* Manager::create_entity (EnCore.h), at most MaxEntities times
create_entity == create_entity_upto(MaxEntities)

\* Manager::create_entity (EnCore.h), often enough for the counter to wrap
create_entity_wrap == create_entity_upto(MaxCreates)

\* Manager::destroy_entity (EnCore.h)
destroy_entity(uid) ==
  /\ impl = "h" /\ mgr_alive
  /\ LET obj  == get_entity(uid)
         ents == DestroyErase(uid)
         dead == EntitiesDropped({obj}, ents, handles)
     IN  /\ entities' = ents
         /\ ent_released' = ent_released \cup dead
         /\ comp_released' = comp_released
                \cup Cascade(dead, ent_objs, ent_released \cup dead, chandles)
         /\ last' = Op("destroy_entity", uid, 0, "", 0)
  /\ destroy_called' = IF uid \in Range(issued) THEN destroy_called \cup {uid}
                                                ELSE destroy_called
  /\ UNCHANGED << impl, entities_vec, next_entity_id, ent_objs, comp_objs,
                  handles, chandles, mgr_alive, crashed, issued >>

\* a caller calls Manager::get_entity (EnCore.h) and keeps the shared_ptr
get_entity_call(uid) ==
  /\ impl = "h" /\ mgr_alive
  /\ handles' = handles \cup ({get_entity(uid)} \ {NullEntity})
  /\ entities' = GetEntityEntities(uid)
  /\ last' = Op("get_entity", uid, 0, "", 0)
  /\ UNCHANGED << impl, entities_vec, next_entity_id, ent_objs,
                  ent_released, comp_objs, comp_released, chandles, mgr_alive,
                  crashed, issued, destroy_called >>

\* a caller calls Manager::get_entities_with_components<T>; keep says whether
\* the returned vector is kept or dropped at once
query(T, ord, keep) ==
  /\ impl = "h" /\ mgr_alive
  /\ handles' = IF keep THEN handles \cup Range(get_entities_with_components(T, ord))
                      ELSE handles
  /\ last' = Op("query", 0, 0, T, 0)
  /\ UNCHANGED << impl, entities, entities_vec, next_entity_id, ent_objs,
                  ent_released, comp_objs, comp_released, chandles, mgr_alive,
                  crashed, issued, destroy_called >>

\* a caller makes a component: std::make_shared<T>(v)
make_component(T, v) ==
  /\ impl = "h" /\ Len(comp_objs) < MaxComps
  /\ comp_objs' = Append(comp_objs, [ type |-> T, val |-> v ])
  /\ chandles' = chandles \cup { Len(comp_objs) + 1 }
  /\ last' = Op("make_component", 0, Len(comp_objs) + 1, T, 0)
  /\ UNCHANGED << impl, entities, entities_vec, next_entity_id, ent_objs,
                  ent_released, comp_released, handles, mgr_alive, crashed,
                  issued, destroy_called >>

\* Entity::add_component<T>(c) through the handle e
add_component(e, c) ==
  /\ impl = "h" /\ e \in handles /\ c \in chandles
  /\ LET T    == comp_objs[c].type
         old  == get_component(e, T)
         objs == [ ent_objs EXCEPT ![e].components = AddComponentMap(e, T, c) ]
     IN  /\ ent_objs' = objs
         /\ comp_released' = comp_released
                \cup CompsDropped({old}, objs, ent_released, chandles)
         /\ last' = Op("add_component", e, c, T, old)
  /\ UNCHANGED << impl, entities, entities_vec, next_entity_id, ent_released,
                  comp_objs, handles, chandles, mgr_alive, crashed, issued,
                  destroy_called >>

\* Entity::remove_component<T>() through the handle e
remove_component(e, T) ==
  /\ impl = "h" /\ e \in handles
  /\ LET old  == get_component(e, T)
         objs == [ ent_objs EXCEPT ![e].components = RemoveComponentMap(e, T) ]
     IN  /\ ent_objs' = objs
         /\ comp_released' = comp_released
                \cup CompsDropped({old}, objs, ent_released, chandles)
         /\ last' = Op("remove_component", e, 0, T, old)
  /\ UNCHANGED << impl, entities, entities_vec, next_entity_id, ent_released,
                  comp_objs, handles, chandles, mgr_alive, crashed, issued,
                  destroy_called >>

\* a caller calls Entity::get_component<T>() and keeps the shared_ptr
get_component_call(e, T) ==
  /\ impl = "h" /\ e \in handles
  /\ chandles' = chandles \cup ({get_component(e, T)} \ {NullComp})
  /\ last' = Op("get_component", e, 0, T, 0)
  /\ UNCHANGED << impl, entities, entities_vec, next_entity_id, ent_objs,
                  ent_released, comp_objs, comp_released, handles, mgr_alive,
                  crashed, issued, destroy_called >>

\* a caller calls Entity::contains<T>()
contains_call(e, T) ==
  /\ impl = "h" /\ e \in handles
  /\ last' = Op("contains", e, 0, T, 0)
  /\ UNCHANGED << impl, entities, entities_vec, next_entity_id, ent_objs,
                  ent_released, comp_objs, comp_released, handles, chandles,
                  mgr_alive, crashed, issued, destroy_called >>

\* a caller calls Entity::get_uid()
get_uid_call(e) ==
  /\ impl = "h" /\ e \in handles
  /\ last' = Op("get_uid", e, 0, "", 0)
  /\ UNCHANGED << impl, entities, entities_vec, next_entity_id, ent_objs,
                  ent_released, comp_objs, comp_released, handles, chandles,
                  mgr_alive, crashed, issued, destroy_called >>

\* a caller lets go of a shared_ptr<Entity>
drop_handle(e) ==
  /\ impl = "h" /\ e \in handles
  /\ LET hs   == handles \ {e}
         dead == EntitiesDropped({e}, entities, hs)
     IN  /\ handles' = hs
         /\ ent_released' = ent_released \cup dead
         /\ comp_released' = comp_released
                \cup Cascade(dead, ent_objs, ent_released \cup dead, chandles)
  /\ last' = Op("drop_handle", 0, 0, "", 0)
  /\ UNCHANGED << impl, entities, entities_vec, next_entity_id, ent_objs,
                  comp_objs, chandles, mgr_alive, crashed, issued,
                  destroy_called >>

\* a caller lets go of a shared_ptr<Comp>
drop_chandle(c) ==
  /\ impl = "h" /\ c \in chandles
  /\ chandles' = chandles \ {c}
  /\ comp_released' = comp_released
         \cup CompsDropped({c}, ent_objs, ent_released, chandles \ {c})
  /\ last' = Op("drop_chandle", 0, 0, "", 0)
  /\ UNCHANGED << impl, entities, entities_vec, next_entity_id, ent_objs,
                  ent_released, comp_objs, handles, mgr_alive, crashed, issued,
                  destroy_called >>

\* Manager::~Manager (EnCore.h): the loop resets copies, then the map is destroyed
manager_dtor ==
  /\ impl = "h" /\ mgr_alive
  /\ LET dead == EntitiesDropped(Range(entities), EmptyMap, handles)
     IN  /\ entities' = EmptyMap
         /\ ent_released' = ent_released \cup dead
         /\ comp_released' = comp_released
                \cup Cascade(dead, ent_objs, ent_released \cup dead, chandles)
  /\ mgr_alive' = FALSE
  /\ last' = Op("manager_dtor", 0, 0, "", 0)
  /\ UNCHANGED << impl, entities_vec, next_entity_id, ent_objs, comp_objs,
                  handles, chandles, crashed, issued, destroy_called >>

\* --------------------------------------------------- Manager (EnCore.cpp)
\* Manager::get_entity(uid): the first pointer of the vector whose Entity reads uid.
\* A pointer to a deleted Entity reads whatever the freed block holds.
get_entity_cpp(uid) ==
  LET hits == { i \in 1 .. Len(entities_vec) : get_uid(entities_vec[i]) = uid }
  IN  IF hits = {} THEN NullEntity
      ELSE entities_vec[CHOOSE i \in hits : \A j \in hits : i <= j]

\* std::remove(entities.begin(), entities.end(), target): the elements that are
\* not target, in order; they fill [begin, new_end)
StdRemove(vec, target) == SelectSeq(vec, LAMBDA q : q # target)

\* some pointer of vec is deleted a second time when every element of vec is deleted
DoubleDelete(vec, freed) ==
  \/ \E i \in DOMAIN vec : vec[i] \in freed
  \/ \E i, j \in DOMAIN vec : i # j /\ vec[i] = vec[j]

\* Manager::create_entity (EnCore.cpp); operator new returns the block p, a
\* fresh one or one that delete gave back
create_entity_cpp(p) ==
  /\ impl = "cpp" /\ ~crashed /\ Len(issued) < MaxEntities
  /\ p \in { Len(ent_objs) + 1 } \cup ent_released
  /\ LET uid == next_entity_id
         ret == ReturnedId(NextId(next_entity_id))
     IN  /\ ent_objs' = IF p = Len(ent_objs) + 1
                          THEN Append(ent_objs, Entity(uid))
                          ELSE [ ent_objs EXCEPT ![p] = Entity(uid) ]
         /\ ent_released' = ent_released \ {p}
         /\ entities_vec' = Append(entities_vec, p)
         /\ next_entity_id' = NextId(next_entity_id)
         /\ issued' = Append(issued, ret)
         /\ last' = Op("create_entity", ret, 0, "", 0)
  /\ UNCHANGED << impl, entities, comp_objs, comp_released, handles, chandles,
                  mgr_alive, crashed, destroy_called >>

\* Manager::destroy_entity (EnCore.cpp): std::remove of get_entity(uid), delete
\* of every element of [begin, new_end), erase of [new_end, end).  The freed
\* blocks in clobber are overwritten by the allocator; a second delete of a
\* block aborts the process when abort.
destroy_entity_cpp(uid, clobber, abort) ==
  /\ impl = "cpp" /\ ~crashed
  /\ LET target == get_entity_cpp(uid)
         kept   == StdRemove(entities_vec, target)
     IN  /\ clobber \subseteq Range(kept)
         /\ entities_vec' = kept
         /\ ent_released' = ent_released \cup Range(kept)
         /\ ent_objs' = [ q \in DOMAIN ent_objs |->
                            IF q \in clobber
                              THEN [ ent_objs[q] EXCEPT !.uid = JunkUid ]
                              ELSE ent_objs[q] ]
         /\ crashed' = (abort /\ DoubleDelete(kept, ent_released))
  /\ destroy_called' = IF uid \in Range(issued) THEN destroy_called \cup {uid}
                                                ELSE destroy_called
  /\ last' = Op("destroy_entity", uid, 0, "", 0)
  /\ UNCHANGED << impl, entities, next_entity_id, comp_objs, comp_released,
                  handles, chandles, mgr_alive, issued >>

\* a caller calls Manager::get_entity (EnCore.cpp) and keeps the Entity*
get_entity_call_cpp(uid) ==
  /\ impl = "cpp" /\ ~crashed
  /\ handles' = handles \cup ({get_entity_cpp(uid)} \ {NullEntity})
  /\ last' = Op("get_entity", uid, 0, "", 0)
  /\ UNCHANGED << impl, entities, entities_vec, next_entity_id, ent_objs,
                  ent_released, comp_objs, comp_released, chandles, mgr_alive,
                  crashed, issued, destroy_called >>

\* a caller forgets an Entity*
drop_handle_cpp(e) ==
  /\ impl = "cpp" /\ ~crashed /\ e \in handles
  /\ handles' = handles \ {e}
  /\ last' = Op("drop_handle", 0, 0, "", 0)
  /\ UNCHANGED << impl, entities, entities_vec, next_entity_id, ent_objs,
                  ent_released, comp_objs, comp_released, chandles, mgr_alive,
                  crashed, issued, destroy_called >>

\* ------------------------------------------------- writes through a view
\* mutant: the view is a copy of the component, and the write lands on the copy
WriteToCopy(c, v) == comp_objs

\* the Component objects after view->x = v, the view being the shared_ptr that
\* get_component's static_pointer_cast returns: it points to the stored object
WriteThrough(c, v) == [ comp_objs EXCEPT ![c].val = v ]

\* a caller assigns v to the field of the component it holds the view c of
write_component(c, v) ==
  /\ impl = "h" /\ c \in chandles
  /\ v \in WriteValuesOf(comp_objs[c].type)
  /\ comp_objs' = WriteThrough(c, v)
  /\ last' = Op("write_component", 0, c, comp_objs[c].type, 0)
  /\ UNCHANGED << impl, entities, entities_vec, next_entity_id, ent_objs,
                  ent_released, comp_released, handles, chandles, mgr_alive,
                  crashed, issued, destroy_called >>

\* the conversion of a non-negative double (in hundredths) to int: truncation
ToInt(h) == h \div VelScale

\* pos_comp->x += vel_comp->x: the int is promoted to double, the sum is
\* converted back to int
PlusAssign(x, vx) == ToInt(x * VelScale + vx)

\* the Component objects after the loop of UpdateSystem::update has visited the
\* entities es in order, starting from the objects cobjs
RECURSIVE UpdateLoop(_, _)
UpdateLoop(es, cobjs) ==
  IF es = << >> THEN cobjs
  ELSE LET e   == Head(es)
           pos == get_component(e, "PosComp")
           vel == get_component(e, "VelComp")
           nxt == IF contains(e, "PosComp")
                    THEN [ cobjs EXCEPT ![pos].val = PlusAssign(cobjs[pos].val, cobjs[vel].val) ]
                    ELSE cobjs
       IN  UpdateLoop(Tail(es), nxt)

\* UpdateSystem::update(manager) of the README, the map being iterated in order
\* ord; the vector and the views it takes are dropped when it returns
update(ord) ==
  /\ impl = "h" /\ mgr_alive
  /\ LET cobjs == UpdateLoop(get_entities_with_components("VelComp", ord), comp_objs)
     IN  /\ \A c \in DOMAIN cobjs : cobjs[c].type = "PosComp" => cobjs[c].val <= MaxX
         /\ comp_objs' = cobjs
  /\ last' = Op("update", 0, 0, "VelComp", 0)
  /\ UNCHANGED << impl, entities, entities_vec, next_entity_id, ent_objs,
                  ent_released, comp_released, handles, chandles, mgr_alive,
                  crashed, issued, destroy_called >>

Init ==
  /\ impl \in Impls
  /\ entities = EmptyMap
  /\ entities_vec = << >>
  /\ next_entity_id = 0
  /\ ent_objs = << >>
  /\ ent_released = {}
  /\ comp_objs = << >>
  /\ comp_released = {}
  /\ handles = {}
  /\ chandles = {}
  /\ mgr_alive = TRUE
  /\ crashed = FALSE
  /\ issued = << >>
  /\ destroy_called = {}
  /\ last = NoOp

Next ==
  \/ create_entity
  \/ \E uid \in Uids : destroy_entity(uid)
  \/ \E uid \in Uids : get_entity_call(uid)
  \/ \E T \in CompTypes, keep \in BOOLEAN :
       \E ord \in Orders(DOMAIN entities) : query(T, ord, keep)
  \/ \E T \in CompTypes, v \in CompValues : make_component(T, v)
  \/ \E e \in handles, c \in chandles : add_component(e, c)
  \/ \E e \in handles, T \in CompTypes : remove_component(e, T)
  \/ \E e \in handles, T \in CompTypes : get_component_call(e, T)
  \/ \E e \in handles, T \in CompTypes : contains_call(e, T)
  \/ \E e \in handles : get_uid_call(e)
  \/ \E e \in handles : drop_handle(e)
  \/ \E c \in chandles : drop_chandle(c)
  \/ manager_dtor
  \/ \E p \in 1 .. (Len(ent_objs) + 1) : create_entity_cpp(p)
  \/ \E uid \in Uids, abort \in BOOLEAN :
       \E clobber \in SUBSET (1 .. Len(ent_objs)) : destroy_entity_cpp(uid, clobber, abort)
  \/ \E uid \in Uids : get_entity_call_cpp(uid)
  \/ \E e \in handles : drop_handle_cpp(e)

Spec == Init /\ [][Next]_vars

\* The Manager of EnCore.h driven until next_entity_id has gone through every
\* value of its type: creates and destroys of any uid.
InitWrap == Init /\ impl = "h"

NextWrap ==
  \/ create_entity_wrap
  \/ \E uid \in AllUids : destroy_entity(uid)

SpecWrap == InitWrap /\ [][NextWrap]_vars

\* The driver of the README: a Manager of EnCore.h, entities, components with
\* the README's values, writes through views and the update loop.
InitSystem == Init /\ impl = "h"

NextSystem ==
  \/ create_entity
  \/ \E uid \in Uids : destroy_entity(uid)
  \/ \E uid \in Uids : get_entity_call(uid)
  \/ \E T \in CompTypes, keep \in BOOLEAN :
       \E ord \in Orders(DOMAIN entities) : query(T, ord, keep)
  \/ \E T \in CompTypes : \E v \in ValuesOf(T) : make_component(T, v)
  \/ \E e \in handles, c \in chandles : add_component(e, c)
  \/ \E e \in handles, T \in CompTypes : remove_component(e, T)
  \/ \E e \in handles, T \in CompTypes : get_component_call(e, T)
  \/ \E c \in chandles : \E v \in WriteValuesOf(comp_objs[c].type) : write_component(c, v)
  \/ \E ord \in Orders(DOMAIN entities) : update(ord)
  \/ \E e \in handles : drop_handle(e)
  \/ \E c \in chandles : drop_chandle(c)

SpecSystem == InitSystem /\ [][NextSystem]_vars

\* ------------------------------------------------------------- properties
IssuedSet == Range(issued)

\* the uids create_entity has returned and destroy_entity has not been given since
LiveUids == IssuedSet \ destroy_called

NoDuplicates(seq) == \A i, j \in DOMAIN seq : i # j => seq[i] # seq[j]

C2_GetEntityIffLive ==
  (mgr_alive /\ ~crashed) =>
    \A u \in Uids :
      LET r == IF impl = "h" THEN get_entity(u) ELSE get_entity_cpp(u)
      IN  /\ (r # NullEntity) <=> (u \in LiveUids)
          /\ (r # NullEntity) => get_uid(r) = u

\* C2 restricted to the definitions of EnCore.h.
C2_GetEntityIffLive_h ==
  (impl = "h" /\ mgr_alive) =>
    \A u \in Uids :
      /\ (get_entity(u) # NullEntity) <=> (u \in LiveUids)
      /\ (get_entity(u) # NullEntity) => get_uid(get_entity(u)) = u

\* the Entity objects of the uids that are alive
LiveObjs == { e \in 1 .. Len(ent_objs) : e \notin ent_released /\ get_uid(e) \in LiveUids }

\* C3: query<T>() returns exactly the entities that are in the registry and
\* have T, each once, in whatever order the map is iterated.
C3_QueryExact ==
  (impl = "h" /\ mgr_alive) =>
    \A T \in CompTypes : \A ord \in Orders(DOMAIN entities) :
      LET r == get_entities_with_components(T, ord)
      IN  /\ NoDuplicates(r)
          /\ Range(r) = { e \in LiveObjs : contains(e, T) }

\* C3 witness: one entity alive with T, one alive without T, and a destroyed
\* entity that still holds T through a handle.
C3_Witness ==
  /\ impl = "h" /\ mgr_alive
  /\ \E T \in CompTypes :
       /\ \E e \in LiveObjs : contains(e, T)
       /\ \E e \in handles : get_uid(e) \in destroy_called /\ contains(e, T)
       /\ \E U \in CompTypes : \E e \in LiveObjs : ~contains(e, U)

\* C4: immediately after attach<T>(v) on E, has<T>() on E is true and get<T>()
\* on E yields the instance v, whether or not E had a T before and whatever
\* other components E holds.
C4_AttachThenGet ==
  last.op = "add_component" =>
    /\ contains(last.a, last.t)
    /\ get_component(last.a, last.t) = last.c

\* C4 witness: an attach of T to an entity that already had a T and also holds
\* a component of another type.
C4_Witness ==
  /\ last.op = "add_component"
  /\ last.old # NullComp
  /\ \E U \in CompTypes : U # last.t /\ contains(last.a, U)

\* C5: an entity holds at most one instance per component type, stored under
\* the key of its type; after attach<T>(v1), attach<T>(v2) get<T>() yields v2,
\* v1 is not reachable through the entity and the entity is once in query<T>().
C5_AtMostOnePerType ==
  /\ \A e \in (1 .. Len(ent_objs)) \ ent_released :
       /\ \A k \in DOMAIN ent_objs[e].components :
            \E T \in CompTypes : /\ k = TypeName(T)
                                 /\ comp_objs[ent_objs[e].components[k]].type = T
       /\ \A T \in CompTypes :
            Cardinality({ c \in Range(ent_objs[e].components) : comp_objs[c].type = T }) <= 1
  /\ (last.op = "add_component" /\ last.old # NullComp /\ last.old # last.c) =>
       /\ get_component(last.a, last.t) = last.c
       /\ last.old \notin Range(ent_objs[last.a].components)
       /\ (mgr_alive /\ last.a \in Range(entities)) =>
            \A ord \in Orders(DOMAIN entities) :
              LET r == get_entities_with_components(last.t, ord)
              IN  Cardinality({ i \in DOMAIN r : r[i] = last.a }) = 1

\* C5 witness: v2 has replaced v1 on an entity of the registry while the
\* caller still holds v1.
C5_Witness ==
  /\ last.op = "add_component"
  /\ last.old # NullComp /\ last.old # last.c
  /\ last.old \in chandles
  /\ mgr_alive /\ last.a \in Range(entities)

\* C6: after detach<T>() on E, has<T>() is false and get<T>() is empty; a
\* detach<T>() of an absent T leaves E's mapping, and every object, as it was.
C6_DetachIdempotent ==
  [][ \A e \in handles, T \in CompTypes :
        remove_component(e, T) =>
          /\ (~contains(e, T))'
          /\ (get_component(e, T) = NullComp)'
          /\ ~contains(e, T) => UNCHANGED << ent_objs, comp_released, ent_released >> ]_vars

\* C6 witness: a detach<T>() of a type the entity did not hold, on an entity
\* that holds a component of another type.
C6_Witness ==
  /\ last.op = "remove_component"
  /\ last.old = NullComp
  /\ \E U \in CompTypes : U # last.t /\ contains(last.a, U)

\* C7: destroy_entity(u) for a uid that is not in the registry raises no error
\* and leaves the live entities, their components and validity, and
\* next_entity_id unchanged.
C7_DestroyUnknownNoOp ==
  [][ \A uid \in Uids :
        ( /\ uid \notin LiveUids
          /\ \/ destroy_entity(uid)
             \/ \E abort \in BOOLEAN : \E clobber \in SUBSET (1 .. Len(ent_objs)) :
                  destroy_entity_cpp(uid, clobber, abort) )
        => UNCHANGED << entities, entities_vec, ent_objs, ent_released,
                        comp_released, next_entity_id, crashed >> ]_vars

\* C7 restricted to the definitions of EnCore.h.
C7_DestroyUnknownNoOp_h ==
  [][ \A uid \in Uids :
        (uid \notin LiveUids /\ destroy_entity(uid))
        => UNCHANGED << entities, ent_objs, ent_released, comp_released,
                        next_entity_id >> ]_vars

C10_HandleSafety ==
  /\ \A e \in handles :
       /\ e \notin ent_released
       /\ \A c \in Range(ent_objs[e].components) : c \notin comp_released
  /\ \A c \in chandles : c \notin comp_released

\* C10 restricted to the definitions of EnCore.h.
C10_HandleSafety_h == impl = "h" => C10_HandleSafety

\* C11: identifier exhaustion is never silently absorbed: no create_entity
\* returns an identifier that was returned before, none replaces or drops an
\* entity of the registry, and each adds exactly one live entity.
C11_NoSilentWrap ==
  [][ create_entity_wrap =>
        /\ issued'[Len(issued')] \notin Range(issued)
        /\ \A k \in DOMAIN entities : k \in DOMAIN entities' /\ entities'[k] = entities[k]
        /\ Cardinality(DOMAIN entities') = Cardinality(DOMAIN entities) + 1
        /\ ent_released' = ent_released ]_vars

\* C11 below the wrap: the same, for the creates made while the counter has
\* not yet held its maximum.
C11_NoSilentWrap_below ==
  [][ (create_entity_wrap /\ Len(issued) < UIntMod) =>
        /\ issued'[Len(issued')] \notin Range(issued)
        /\ \A k \in DOMAIN entities : k \in DOMAIN entities' /\ entities'[k] = entities[k]
        /\ Cardinality(DOMAIN entities') = Cardinality(DOMAIN entities) + 1
        /\ ent_released' = ent_released ]_vars

\* the (entity, type) slots among the Entity objects es that hold the instance c
AttachedSlots(c, objs, es) ==
  { p \in es \X CompTypes :
      /\ TypeName(p[2]) \in DOMAIN objs[p[1]].components
      /\ objs[p[1]].components[TypeName(p[2])] = c }

\* C12: exclusive component ownership: every component instance is attached
\* to at most one (entity, type) slot, and once it is detached, replaced by
\* another attach or its entity is destroyed, no entity of the registry holds it.
C12_ExclusiveOwnership ==
  /\ [](\A c \in 1 .. Len(comp_objs) :
          Cardinality(AttachedSlots(c, ent_objs, (1 .. Len(ent_objs)) \ ent_released)) <= 1)
  /\ [][ /\ \A e \in handles, T \in CompTypes :
             (remove_component(e, T) /\ contains(e, T)) =>
               AttachedSlots(get_component(e, T), ent_objs', Range(entities')) = {}
         /\ \A e \in handles, c \in chandles :
             (add_component(e, c) /\ get_component(e, comp_objs[c].type) \notin {NullComp, c}) =>
               AttachedSlots(get_component(e, comp_objs[c].type), ent_objs', Range(entities')) = {}
         /\ \A uid \in Uids :
             (destroy_entity(uid) /\ uid \in DOMAIN entities) =>
               \A c \in Range(ent_objs[entities[uid]].components) :
                 AttachedSlots(c, ent_objs', Range(entities')) = {} ]_vars

\* Manager::get_entity of the definition that is linked
GetEntityOf(uid) == IF impl = "h" THEN get_entity(uid) ELSE get_entity_cpp(uid)

\* the uids get_entity finds, other than uid
OthersPresent(uid) == { v \in Uids \ {uid} : GetEntityOf(v) # NullEntity }

\* after a step: every uid v that was present still yields the same Entity,
\* which is not released and has the components it had; the counter is as it was
OthersKept(vs) ==
  /\ \A v \in vs :
       /\ GetEntityOf(v)' = GetEntityOf(v)
       /\ GetEntityOf(v) \notin ent_released'
       /\ ent_objs'[GetEntityOf(v)] = ent_objs[GetEntityOf(v)]
  /\ next_entity_id' = next_entity_id

\* C13: destroy_entity(u) for a uid u of the registry removes exactly u: every
\* other uid that was present is still present, refers to the same entity,
\* which is not released and has unchanged components; next_entity_id is
\* unchanged.
C13_DestroyExactlyOne ==
  [][ \A uid \in Uids :
        ( /\ GetEntityOf(uid) # NullEntity
          /\ \/ destroy_entity(uid)
             \/ \E abort \in BOOLEAN : \E clobber \in SUBSET (1 .. Len(ent_objs)) :
                  destroy_entity_cpp(uid, clobber, abort) )
        => (GetEntityOf(uid) = NullEntity)' /\ OthersKept(OthersPresent(uid)) ]_vars

\* C13 restricted to the definitions of EnCore.h.
C13_DestroyExactlyOne_h ==
  [][ \A uid \in Uids :
        (impl = "h" /\ GetEntityOf(uid) # NullEntity /\ destroy_entity(uid))
        => (GetEntityOf(uid) = NullEntity)' /\ OthersKept(OthersPresent(uid)) ]_vars

\* C13 witness (EnCore.h): a destroy of an entity of the registry that left
\* another entity, which holds a component, in the registry.
C13_Witness_h ==
  /\ impl = "h" /\ mgr_alive
  /\ last.op = "destroy_entity" /\ last.a \in destroy_called
  /\ \E k \in DOMAIN entities : ent_objs[entities[k]].components # EmptyMap

\* after a step on the slot T of e: the other slots of e answer as before and
\* hold instances of their own type, and every other Entity, the registry,
\* the released entities and the counter are as they were
SlotFrame(e, T) ==
  /\ \A U \in CompTypes \ {T} :
       /\ contains(e, U)' = contains(e, U)
       /\ get_component(e, U)' = get_component(e, U)
       /\ get_component(e, U)' # NullComp => comp_objs'[get_component(e, U)'].type = U
  /\ get_uid(e)' = get_uid(e)
  /\ \A f \in (1 .. Len(ent_objs)) \ {e} : ent_objs'[f] = ent_objs[f]
  /\ Len(ent_objs') = Len(ent_objs)
  /\ UNCHANGED << entities, ent_released, next_entity_id, issued, destroy_called >>

\* C14: attach<T>(v) and detach<T>() on E change only E's slot for T: has<U>()
\* and get<U>() on E are unchanged for every other type U, get<U>() never
\* yields an instance stored under T, and every other entity's components, the
\* live entities and next_entity_id are unchanged.
C14_AttachDetachFrame ==
  [][ (last'.op \in {"add_component", "remove_component"}) =>
        \A e \in handles :
          /\ \A c \in chandles : add_component(e, c) => SlotFrame(e, comp_objs[c].type)
          /\ \A T \in CompTypes : remove_component(e, T) => SlotFrame(e, T) ]_vars

\* C14 witness: a detach that took a component out of an entity that holds a
\* component of another type, while another entity holds components.
C14_Witness ==
  /\ last.op = "remove_component"
  /\ last.old # NullComp
  /\ \E U \in CompTypes : U # last.t /\ contains(last.a, U)
  /\ \E f \in (1 .. Len(ent_objs)) \ {last.a} : ent_objs[f].components # EmptyMap

\* the names the lookups record in last
LookupOps == {"get_entity", "query", "get_component", "contains", "get_uid"}

\* a call of has<T>(), get<T>(), id(), get_entity(uid) or query<T>()
LookupStep ==
  \/ \E uid \in Uids : get_entity_call(uid)
  \/ \E T \in CompTypes, keep \in BOOLEAN :
       \E ord \in Orders(DOMAIN entities) : query(T, ord, keep)
  \/ \E e \in handles, T \in CompTypes : get_component_call(e, T)
  \/ \E e \in handles, T \in CompTypes : contains_call(e, T)
  \/ \E e \in handles : get_uid_call(e)

\* C15: the lookups are pure: has<T>(), get<T>(), id(), get_entity(uid) and
\* query<T>() change neither the registry nor any entity or component, create
\* no mapping entry for what they do not find, and so get_entity, has<T>(),
\* get<T>() and query<T>() answer after the lookup as they did before it.
C15_LookupsPure ==
  [][ (last'.op \in LookupOps /\ LookupStep) =>
        /\ UNCHANGED << entities, next_entity_id, ent_objs, ent_released,
                        comp_objs, comp_released >>
        /\ \A u \in Uids : get_entity(u)' = get_entity(u)
        /\ \A e \in 1 .. Len(ent_objs), T \in CompTypes :
             /\ contains(e, T)' = contains(e, T)
             /\ get_component(e, T)' = get_component(e, T)
        /\ \A T \in CompTypes : \A ord \in Orders(DOMAIN entities) :
             get_entities_with_components(T, ord)' = get_entities_with_components(T, ord) ]_vars

\* C15 witness: a get_entity of a uid that is not in a registry that holds an
\* entity, which has one component type and lacks the other.
C15_Witness ==
  /\ impl = "h" /\ mgr_alive
  /\ last.op = "get_entity"
  /\ get_entity(last.a) = NullEntity
  /\ \E k \in DOMAIN entities : \E T, U \in CompTypes :
       contains(entities[k], T) /\ ~contains(entities[k], U)

\* the Entity objects the Manager that is linked holds
Registered == IF impl = "h" THEN Range(entities) ELSE Range(entities_vec)

\* every Entity that neither the Manager nor a handle holds is released, and
\* so is every Component that no Entity and no handle holds
NothingLeaked ==
  /\ \A e \in 1 .. Len(ent_objs) :
       (e \notin Registered /\ e \notin handles) => e \in ent_released
  /\ \A c \in 1 .. Len(comp_objs) :
       ( /\ AttachedSlots(c, ent_objs, (1 .. Len(ent_objs)) \ ent_released) = {}
         /\ c \notin chandles ) => c \in comp_released

\* what is released has no owner left that could release it again
ReleasedUnowned ==
  /\ \A e \in ent_released : EntUseCount(e, entities, handles) = 0
  /\ \A c \in comp_released : CompUseCount(c, ent_objs, ent_released, chandles) = 0

\* C16: destroy_entity(u) releases what it removes: once no handle to u
\* remains, entity u is released, with every component attached to it that
\* nobody else holds; the same for every entity when the Manager is
\* destroyed; nothing is leaked and nothing is released twice.
C16_ReleaseOnDestroy ==
  /\ [](NothingLeaked /\ ~crashed)
  /\ [][ \A uid \in Uids, abort \in BOOLEAN : \A clobber \in SUBSET (1 .. Len(ent_objs)) :
           destroy_entity_cpp(uid, clobber, abort) =>
             ~DoubleDelete(StdRemove(entities_vec, get_entity_cpp(uid)), ent_released) ]_vars

\* C16 restricted to the definitions of EnCore.h.
C16_ReleaseOnDestroy_h == impl = "h" => (NothingLeaked /\ ReleasedUnowned)

\* C16 witness (EnCore.h): the last handle to a destroyed entity was let go, and
\* the entity and a component only it held are released, while the caller
\* still holds another component it had.
C16_Witness_h ==
  /\ impl = "h"
  /\ last.op = "drop_handle"
  /\ \E e \in ent_released :
       /\ get_uid(e) \in destroy_called
       /\ \E c \in Range(ent_objs[e].components) : c \in comp_released
       /\ \E c \in Range(ent_objs[e].components) : c \in chandles

WriteStep == last'.op \in {"write_component", "update"}

\* the Entity objects that are not destructed
LiveEntityObjs == (1 .. Len(ent_objs)) \ ent_released

\* C18: components are mutated in place: a write through a view of the
\* component in E's slot T is what get<T>() on E reads afterwards, through
\* any handle; as long as T is neither detached from nor replaced on E, only
\* a write changes what get<T>() on E reads; and each update of the README's
\* system starts from the values the update before it left.
C18_InPlaceMutation ==
  [][ /\ \A c \in chandles : \A v \in WriteValuesOf(comp_objs[c].type) :
           write_component(c, v) =>
             (\A e \in LiveEntityObjs, T \in CompTypes :
                (get_component(e, T) = c) =>
                  (get_component(e, T)' = c /\ comp_objs'[c].val = v))
      /\ (~WriteStep) =>
             (\A e \in LiveEntityObjs, T \in CompTypes :
                (get_component(e, T) # NullComp /\ get_component(e, T)' = get_component(e, T))
                  => (comp_objs'[get_component(e, T)] = comp_objs[get_component(e, T)]))
      /\ (last'.op = "update") =>
             (\A k \in DOMAIN entities :
                LET e   == entities[k]
                    pos == get_component(e, "PosComp")
                    vel == get_component(e, "VelComp")
                IN  (pos # NullComp /\ vel # NullComp) =>
                      ( /\ get_component(e, "PosComp")' = pos
                        /\ comp_objs'[pos].val >= PlusAssign(comp_objs[pos].val, comp_objs[vel].val)
                        /\ comp_objs'[pos].val > comp_objs[pos].val )) ]_vars

\* C18 witness: the update loop has run twice over an entity of the registry:
\* its PosComp reads the README's value plus two increments, and the caller
\* still holds the view of it.
C18_Witness ==
  /\ last.op = "update"
  /\ \E k \in DOMAIN entities :
       LET pos == get_component(entities[k], "PosComp")
       IN  /\ pos # NullComp /\ pos \in chandles
           /\ contains(entities[k], "VelComp")
           /\ comp_objs[pos].val = PlusAssign(PlusAssign(PosX, VelX), VelX)

====
